---- MODULE Spec2Model ----
(***************************************************************************)
(* Model of the S3 bulk uploader: src/core/main.py (main) and              *)
(* src/core/utils.py (enumeration, key derivation, existence check,        *)
(* upload_files loop, upload_file_to_s3 and the ProgressPercentage         *)
(* callback).  Strings are sequences of one-character strings so that      *)
(* str.replace, str.endswith, str.split and os.path.join are computed      *)
(* character by character, as Python computes them.  Python's None and     *)
(* the empty string / empty tuple are both falsy where the code tests      *)
(* them (`if key_prefix`, `if extensions`), and are modelled by <<>>.      *)
(***************************************************************************)
EXTENDS Integers, Sequences, FiniteSets, TLC

\* ------------------------------------------------------------------ bounds
\* Number of part-upload worker threads of one transfer (the code's
\* max_concurrency is 10; the model explores a smaller pool).
NumWorkers == 2
\* Largest byte delta the transport reports in one progress callback.
MaxDelta == 2

Workers == 1..NumWorkers

\* ------------------------------------------------------- string primitives
Max(S) == CHOOSE x \in S : \A y \in S : y <= x

\* s[i..] starts with old
StartsWithAt(s, old, i) ==
    /\ i + Len(old) - 1 <= Len(s)
    /\ SubSeq(s, i, i + Len(old) - 1) = old

RECURSIVE ReplaceFrom(_, _, _, _)
ReplaceFrom(s, old, new, i) ==
    IF i > Len(s) THEN <<>>
    ELSE IF StartsWithAt(s, old, i)
         THEN new \o ReplaceFrom(s, old, new, i + Len(old))
         ELSE <<s[i]>> \o ReplaceFrom(s, old, new, i + 1)

\* Python str.replace(old, new) for a non-empty old: every non-overlapping
\* occurrence, scanning left to right.
str_replace(s, old, new) == ReplaceFrom(s, old, new, 1)

\* Python str.endswith(tuple): some suffix of the tuple ends s (case-sensitive).
str_endswith(s, suffixes) ==
    \E k \in 1..Len(suffixes) :
        /\ Len(suffixes[k]) <= Len(s)
        /\ SubSeq(s, Len(s) - Len(suffixes[k]) + 1, Len(s)) = suffixes[k]

\* Python s.split('/')[-1]: the text after the last '/'.
split_last(s) ==
    LET cuts == {i \in 1..Len(s) : s[i] = "/"}
    IN  IF cuts = {} THEN s ELSE SubSeq(s, Max(cuts) + 1, Len(s))

\* os.path.join(a, b) on a POSIX host, for a non-empty a and a relative b.
os_path_join(a, b) ==
    IF a[Len(a)] = "/" THEN a \o b ELSE a \o <<"/">> \o b

\* Python s.replace("\\", "/"): single characters, so a character map.
backslash_to_slash(s) ==
    [i \in 1..Len(s) |-> IF s[i] = "\\" THEN "/" ELSE s[i]]

\* -------------------------------------------------------- local filesystem
\* The local filesystem the run sees:
\*   /d/a.m  /d/b.M  /d/d/c.m  /data/videos/x.mp4
Name_d      == <<"d">>
Name_am     == <<"a", ".", "m">>
Name_bM     == <<"b", ".", "M">>
Name_cm     == <<"c", ".", "m">>
Name_data   == <<"d", "a", "t", "a">>
Name_videos == <<"v", "i", "d", "e", "o", "s">>
Name_xmp4   == <<"x", ".", "m", "p", "4">>

Path_d      == <<"/">> \o Name_d
Path_dd     == os_path_join(Path_d, Name_d)
Path_data   == <<"/">> \o Name_data
Path_videos == os_path_join(Path_data, Name_videos)
Path_absent == <<"/", "z">>

Directories == {Path_d, Path_dd, Path_data, Path_videos}

RegularFiles ==
    { os_path_join(Path_d, Name_am), os_path_join(Path_d, Name_bM),
      os_path_join(Path_dd, Name_cm),
      os_path_join(Path_videos, Name_xmp4) }

\* A directory path names the same directory with or without a trailing '/'.
StripSlash(p) ==
    IF Len(p) > 1 /\ p[Len(p)] = "/" THEN SubSeq(p, 1, Len(p) - 1) ELSE p

os_path_isdir(p) == StripSlash(p) \in Directories

os_path_exists(p) == os_path_isdir(p) \/ p \in RegularFiles

\* os.listdir(p): the entry names of a directory, in the directory's order.
os_listdir(p) ==
    LET q == StripSlash(p)
    IN  IF q = Path_d THEN <<Name_am, Name_bM, Name_d>>
        ELSE IF q = Path_dd THEN <<Name_cm>>
        ELSE IF q = Path_data THEN <<Name_videos>>
        ELSE IF q = Path_videos THEN <<Name_xmp4>>
        ELSE <<>>

\* os.path.getsize(p), in bytes.
os_path_getsize(p) ==
    IF p = os_path_join(Path_d, Name_am) THEN 2
    ELSE IF p = os_path_join(Path_dd, Name_cm) THEN 3
    ELSE IF p = os_path_join(Path_videos, Name_xmp4) THEN 2
    ELSE 1

\* -------------------------------------------------------------- enumeration
\* clean_file_list: keep the names ending with one of the extensions (all of
\* them when extensions is falsy), joined to root_path with '/' separators.
clean_file_list(root, names, exts) ==
    LET Keep(name) == str_endswith(name, exts)
        kept == IF exts # <<>> THEN SelectSeq(names, Keep) ELSE names
    IN  [i \in 1..Len(kept) |-> backslash_to_slash(os_path_join(root, kept[i]))]

\* get_filenames_flat: the non-directory entries of root_path, cleaned.
get_filenames_flat(root, exts) ==
    LET NotDir(name) == ~os_path_isdir(os_path_join(root, name))
    IN  clean_file_list(root, SelectSeq(os_listdir(root), NotDir), exts)

\* get_filenames_recursive: os.walk(top) top-down; each directory contributes
\* its cleaned file names, then its subdirectories are walked in order.
RECURSIVE walk(_, _)
RECURSIVE walk_dirs(_, _, _, _)
walk(top, exts) ==
    LET IsDir(name)  == os_path_isdir(os_path_join(top, name))
        NotDir(name) == ~IsDir(name)
        dirs  == SelectSeq(os_listdir(top), IsDir)
        names == SelectSeq(os_listdir(top), NotDir)
    IN  clean_file_list(top, names, exts) \o walk_dirs(top, dirs, 1, exts)
walk_dirs(top, dirs, k, exts) ==
    IF k > Len(dirs) THEN <<>>
    ELSE walk(os_path_join(top, dirs[k]), exts) \o walk_dirs(top, dirs, k + 1, exts)

get_filenames_recursive(root, exts) == walk(root, exts)

get_filenames(root, rec, exts) ==
    IF rec THEN get_filenames_recursive(root, exts)
    ELSE get_filenames_flat(root, exts)

\* check_path_is_directory with the final `raise` replaced by `return False`.
check_path_is_directory_no_raise(root) ==
    IF os_path_isdir(root) THEN "True" ELSE "False"

\* check_path_is_directory: "True" for a directory, "False" for a file,
\* "FileNotFoundError" (raised) for a path that exists as neither.
check_path_is_directory(root) ==
    IF os_path_isdir(root) THEN "True"
    ELSE IF os_path_exists(root) THEN "False"
    ELSE "FileNotFoundError"

\* The files list main hands to upload_files.
main_files(root, is_dir, rec, exts) ==
    IF is_dir THEN get_filenames(root, rec, exts) ELSE <<root>>

\* ------------------------------------------------------------ key derivation
\* upload_files, the key of one file.
derive_key(file, root, prefix, is_dir) ==
    IF prefix # <<>> /\ is_dir THEN str_replace(file, root, prefix)
    ELSE IF prefix # <<>> /\ ~is_dir THEN prefix \o split_last(file)
    ELSE file

\* --------------------------------------------------------- existence oracle
\* What s3_client.get_object does for one call: returns a response, raises
\* NoSuchKey, raises a ClientError with some other error code, or raises an
\* error that is no ClientError (no route to the endpoint).
GetObjectOutcomes ==
    {"Ok", "NoSuchKey", "InvalidObjectState", "AccessDenied", "EndpointConnectionError"}

ClientErrorCodes == {"NoSuchKey", "InvalidObjectState", "AccessDenied"}

\* check_object_exists whose inner else branch re-raises instead of
\* returning False.
check_object_exists_reraise(outcome) ==
    IF outcome = "Ok" THEN "True"
    ELSE IF outcome = "NoSuchKey" THEN "False"
    ELSE IF outcome = "InvalidObjectState" THEN "True"
    ELSE "raise"

\* check_object_exists: "True", "False", or "raise" when the error is not
\* caught by either except clause.
check_object_exists(outcome) ==
    IF outcome = "Ok" THEN "True"
    ELSE IF outcome = "NoSuchKey" THEN "False"
    ELSE IF outcome \in ClientErrorCodes
         THEN IF outcome = "InvalidObjectState" THEN "True" ELSE "False"
    ELSE "raise"

\* The condition with the skip branch lost: every file is uploaded.
should_transfer_always(file_exists, replace) == TRUE

\* The condition with replace_if_exists ignored: only absent objects are uploaded.
should_transfer_absent_only(file_exists, replace) == ~file_exists

\* upload_files, the condition under which upload_file_to_s3 is called.
should_transfer(file_exists, replace) ==
    (~file_exists) \/ (file_exists /\ replace)

\* -------------------------------------------------------- progress callback
\* (seen / size) * 100 as printed by "%.2f": hundredths of a percent,
\* rounded to nearest, ties to even.
percentage(seen, size) ==
    LET q == (seen * 10000) \div size
        r == (seen * 10000) % size
    IN  IF 2 * r < size THEN q
        ELSE IF 2 * r > size THEN q + 1
        ELSE IF q % 2 = 0 THEN q ELSE q + 1

\* ------------------------------------------------------------------- state
VARIABLES
    root_path, recursive, replace_if_exists, key_prefix, extensions,
    pc, error, root_path_is_directory, files, idx, key, outcome, file_exists,
    status, nChecks, checkedKey, existsOf, nTransfers, transferKey, nUploads,
    openHandles, size, seen_so_far, lock, emitted,
    unsent, failed, wpc, wdelta, wtmp, called, applied

inputs   == <<root_path, recursive, replace_if_exists, key_prefix, extensions>>
control  == <<pc, error, root_path_is_directory, files, idx, key, outcome,
              file_exists>>
history  == <<status, nChecks, checkedKey, existsOf, nTransfers, transferKey,
              nUploads>>
progress == <<size, seen_so_far, lock, emitted>>
transfer == <<unsent, failed, wpc, wdelta, wtmp, called, applied>>
vars     == <<inputs, control, history, openHandles, progress, transfer>>

\* The command lines the model explores.
RootPaths ==
    { Path_d, Path_d \o <<"/">>, os_path_join(Path_d, Name_bM),
      Path_videos, Path_absent }

KeyPrefixes == { <<>>, <<"m", "e", "d", "i", "a", "/">> }

ExtensionTuples ==
    { <<>>, << <<".", "m">> >>, << <<".", "m">>, <<".", "m", "p", "4">> >> }

NoLock    == 0
NoEmit    == [seen |-> -1, pct |-> -1]
Terminal  == {"Skipped", "Succeeded", "Failed"}
AllIdle   == \A w \in Workers : wpc[w] = "idle"

Init ==
    /\ root_path \in RootPaths
    /\ recursive \in BOOLEAN
    /\ replace_if_exists \in BOOLEAN
    /\ key_prefix \in KeyPrefixes
    /\ extensions \in ExtensionTuples
    /\ pc = "start"
    /\ error = "none"
    /\ root_path_is_directory = FALSE
    /\ files = <<>>
    /\ idx = 1
    /\ key = <<>>
    /\ outcome = "none"
    /\ file_exists = FALSE
    /\ status = <<>>
    /\ nChecks = <<>>
    /\ checkedKey = <<>>
    /\ existsOf = <<>>
    /\ nTransfers = <<>>
    /\ transferKey = <<>>
    /\ nUploads = <<>>
    /\ openHandles = {}
    /\ size = 0
    /\ seen_so_far = 0
    /\ lock = NoLock
    /\ emitted = NoEmit
    /\ unsent = 0
    /\ failed = FALSE
    /\ wpc = [w \in Workers |-> "idle"]
    /\ wdelta = [w \in Workers |-> 0]
    /\ wtmp = [w \in Workers |-> 0]
    /\ called = 0
    /\ applied = 0

\* ------------------------------------------------------------------- main
\* boilerplate_warning: the user answers yes (the run continues) or no (exit()).
BoilerplateWarning ==
    /\ pc = "start"
    /\ \E answer \in {"y", "n"} :
        pc' = IF answer = "y" THEN "init_client" ELSE "exited"
    /\ UNCHANGED <<inputs, error, root_path_is_directory, files, idx, key,
                   outcome, file_exists, history, openHandles, progress, transfer>>

\* init_aws_client: returns a client, or the error propagates out of main.
InitAwsClient ==
    /\ pc = "init_client"
    /\ \E ok \in BOOLEAN :
        /\ pc' = IF ok THEN "check_path" ELSE "raised"
        /\ error' = IF ok THEN error ELSE "ClientError"
    /\ UNCHANGED <<inputs, root_path_is_directory, files, idx, key,
                   outcome, file_exists, history, openHandles, progress, transfer>>

\* main, lines 73-89: check_path_is_directory, then the files list.
\* FileNotFoundError propagates through main's `except: raise e`.
CheckPathAndEnumerate ==
    /\ pc = "check_path"
    /\ LET r == check_path_is_directory(root_path) IN
        IF r = "FileNotFoundError"
        THEN /\ pc' = "raised"
             /\ error' = "FileNotFoundError"
             /\ UNCHANGED <<root_path_is_directory, files, history>>
        ELSE LET fs == main_files(root_path, r = "True", recursive, extensions) IN
             /\ root_path_is_directory' = (r = "True")
             /\ files' = fs
             /\ status' = [i \in 1..Len(fs) |-> "Discovered"]
             /\ nChecks' = [i \in 1..Len(fs) |-> 0]
             /\ checkedKey' = [i \in 1..Len(fs) |-> <<>>]
             /\ existsOf' = [i \in 1..Len(fs) |-> "none"]
             /\ nTransfers' = [i \in 1..Len(fs) |-> 0]
             /\ transferKey' = [i \in 1..Len(fs) |-> <<>>]
             /\ nUploads' = [i \in 1..Len(fs) |-> 0]
             /\ pc' = "loop"
             /\ UNCHANGED error
    /\ UNCHANGED <<inputs, idx, key, outcome, file_exists, openHandles, progress,
                   transfer>>

\* ----------------------------------------------------------- upload_files
\* Loop head with a next file: derive its key (lines 361-369).
LoopNext ==
    /\ pc = "loop"
    /\ idx <= Len(files)
    /\ key' = derive_key(files[idx], root_path, key_prefix, root_path_is_directory)
    /\ status' = [status EXCEPT ![idx] = "KeyDerived"]
    /\ pc' = "check"
    /\ UNCHANGED <<inputs, error, root_path_is_directory, files, idx, outcome, file_exists,
                   nChecks, checkedKey, existsOf, nTransfers, transferKey, nUploads,
                   openHandles, progress, transfer>>

\* Loop head with the list exhausted: upload_files and main return.
LoopEnd ==
    /\ pc = "loop"
    /\ idx > Len(files)
    /\ pc' = "done"
    /\ UNCHANGED <<inputs, error, root_path_is_directory, files, idx, key,
                   outcome, file_exists, history, openHandles, progress, transfer>>

\* Lines 371-373: check_object_exists on the derived key.
CheckObjectExists ==
    /\ pc = "check"
    /\ \E o \in GetObjectOutcomes :
        LET r == check_object_exists(o) IN
        /\ outcome' = o
        /\ existsOf' = [existsOf EXCEPT ![idx] = r]
        /\ nChecks' = [nChecks EXCEPT ![idx] = @ + 1]
        /\ checkedKey' = [checkedKey EXCEPT ![idx] = key]
        /\ IF r = "raise"
           THEN /\ pc' = "raised"
                /\ error' = o
                /\ UNCHANGED file_exists
           ELSE /\ pc' = "decide"
                /\ file_exists' = (r = "True")
                /\ UNCHANGED error
    /\ UNCHANGED <<inputs, root_path_is_directory, files, idx, key, status,
                   nTransfers, transferKey, nUploads, openHandles, progress, transfer>>

\* upload_file_to_s3 called with object_key=file instead of object_key=key.
transfer_key_is_path(file, k) == file

\* The object key upload_files passes to upload_file_to_s3 (object_key=key).
transfer_key(file, k) == k

\* Lines 375-386: call upload_file_to_s3, or print the skip notice and go on.
Decide ==
    /\ pc = "decide"
    /\ IF should_transfer(file_exists, replace_if_exists)
       THEN /\ status' = [status EXCEPT ![idx] = "Transferring"]
            /\ nTransfers' = [nTransfers EXCEPT ![idx] = @ + 1]
            /\ transferKey' = [transferKey EXCEPT ![idx] = transfer_key(files[idx], key)]
            /\ pc' = "open"
            /\ UNCHANGED idx
       ELSE /\ status' = [status EXCEPT ![idx] = "Skipped"]
            /\ idx' = idx + 1
            /\ pc' = "loop"
            /\ UNCHANGED <<nTransfers, transferKey>>
    /\ UNCHANGED <<inputs, error, root_path_is_directory, files, key, outcome, file_exists,
                   nChecks, checkedKey, existsOf, nUploads, openHandles, progress, transfer>>

\* ------------------------------------------------------ upload_file_to_s3
Min(a, b) == IF a <= b THEN a ELSE b

\* Lines 143-148: open(path_to_file, "rb") and ProgressPercentage(path_to_file).
\* open can fail (the file vanished after enumeration); the error propagates
\* through `except Exception as e: raise e` of upload_file_to_s3, upload_files
\* and main.
OpenFile ==
    /\ pc = "open"
    /\ \E ok \in BOOLEAN :
        IF ok
        THEN /\ openHandles' = openHandles \cup {files[idx]}
             /\ nUploads' = [nUploads EXCEPT ![idx] = @ + 1]
             /\ size' = os_path_getsize(files[idx])
             /\ seen_so_far' = 0
             /\ lock' = NoLock
             /\ emitted' = NoEmit
             /\ unsent' = os_path_getsize(files[idx])
             /\ failed' = FALSE
             /\ called' = 0
             /\ applied' = 0
             /\ pc' = "uploading"
             /\ UNCHANGED <<error, status>>
        ELSE /\ status' = [status EXCEPT ![idx] = "Failed"]
             /\ pc' = "raised"
             /\ error' = "OpenError"
             /\ UNCHANGED <<openHandles, nUploads, progress, unsent, failed, called,
                            applied>>
    /\ UNCHANGED <<inputs, root_path_is_directory, files, idx, key, outcome, file_exists,
                   nChecks, checkedKey, existsOf, nTransfers, transferKey,
                   wpc, wdelta, wtmp>>

\* A part-upload worker of upload_fileobj sends the next d bytes of the file
\* and is about to report them to the Callback.
TakeChunk(w) ==
    /\ pc = "uploading"
    /\ ~failed
    /\ wpc[w] = "idle"
    /\ unsent > 0
    /\ \E d \in 1..Min(MaxDelta, unsent) :
        /\ unsent' = unsent - d
        /\ wdelta' = [wdelta EXCEPT ![w] = d]
        /\ called' = called + d
    /\ wpc' = [wpc EXCEPT ![w] = "call"]
    /\ UNCHANGED <<inputs, control, history, openHandles, progress, failed,
                   wtmp, applied>>

\* __call__ without the lock: the body is entered at once.
can_acquire_unlocked(l) == TRUE

\* `with self._lock:` can be entered when no other thread holds the lock.
can_acquire(l) == l = NoLock

\* ProgressPercentage.__call__, line 30: acquire the lock.
Acquire(w) ==
    /\ wpc[w] = "call"
    /\ can_acquire(lock)
    /\ lock' = w
    /\ wpc' = [wpc EXCEPT ![w] = "locked"]
    /\ UNCHANGED <<inputs, control, history, openHandles, size, seen_so_far,
                   emitted, unsent, failed, wdelta, wtmp, called, applied>>

\* Line 31, `self._seen_so_far += bytes_amount`: the load of the attribute.
Load(w) ==
    /\ wpc[w] = "locked"
    /\ wtmp' = [wtmp EXCEPT ![w] = seen_so_far]
    /\ wpc' = [wpc EXCEPT ![w] = "loaded"]
    /\ UNCHANGED <<inputs, control, history, openHandles, progress, unsent,
                   failed, wdelta, called, applied>>

\* Line 31: the add and the store back to the attribute.
Store(w) ==
    /\ wpc[w] = "loaded"
    /\ seen_so_far' = wtmp[w] + wdelta[w]
    /\ applied' = applied + wdelta[w]
    /\ wpc' = [wpc EXCEPT ![w] = "stored"]
    /\ UNCHANGED <<inputs, control, history, openHandles, size, lock, emitted,
                   unsent, failed, wdelta, wtmp, called>>

\* Lines 32-37: compute the percentage from the attribute and write the line.
Emit(w) ==
    /\ wpc[w] = "stored"
    /\ emitted' = [seen |-> seen_so_far, pct |-> percentage(seen_so_far, size)]
    /\ wpc' = [wpc EXCEPT ![w] = "emitted"]
    /\ UNCHANGED <<inputs, control, history, openHandles, size, seen_so_far,
                   lock, unsent, failed, wdelta, wtmp, called, applied>>

\* End of the with block: release the lock; the callback returns.
Release(w) ==
    /\ wpc[w] = "emitted"
    /\ lock' = NoLock
    /\ wpc' = [wpc EXCEPT ![w] = "idle"]
    /\ wdelta' = [wdelta EXCEPT ![w] = 0]
    /\ wtmp' = [wtmp EXCEPT ![w] = 0]
    /\ UNCHANGED <<inputs, control, history, openHandles, size, seen_so_far,
                   emitted, unsent, failed, called, applied>>

\* The transport fails during the upload (a part request or the completion
\* request raises); no further bytes are sent.
TransportFail ==
    /\ pc = "uploading"
    /\ ~failed
    /\ failed' = TRUE
    /\ UNCHANGED <<inputs, control, history, openHandles, progress, unsent,
                   wpc, wdelta, wtmp, called, applied>>

\* The ProgressPercentage instance and the transfer's bookkeeping are dropped
\* when upload_fileobj returns or raises; the line last written stays on stdout.
DropTransferState ==
    /\ size' = 0
    /\ seen_so_far' = 0
    /\ unsent' = 0
    /\ failed' = FALSE
    /\ called' = 0
    /\ applied' = 0
    /\ UNCHANGED <<lock, emitted, wpc, wdelta, wtmp>>

\* A bare open() with no close: the handle outlives the call.
handles_after_leak(handles, file) == handles

\* Leaving `with open(path_to_file, "rb") as f:` closes f, on return and on
\* an exception alike.
handles_after_with(handles, file) == handles \ {file}

\* A transport call that returns while part uploads are still in flight.
upload_settled_async == TRUE

\* upload_fileobj is a blocking call: it returns or raises only once every
\* part-upload worker of the transfer has finished.
upload_settled == AllIdle

\* Lines 143-150 return: the with block closes the file, upload_files moves
\* to the next file (line 386).
TransferReturn ==
    /\ pc = "uploading"
    /\ ~failed
    /\ unsent = 0
    /\ upload_settled
    /\ openHandles' = handles_after_with(openHandles, files[idx])
    /\ status' = [status EXCEPT ![idx] = "Succeeded"]
    /\ idx' = idx + 1
    /\ pc' = "loop"
    /\ DropTransferState
    /\ UNCHANGED <<inputs, error, root_path_is_directory, files, key, outcome,
                   file_exists, nChecks, checkedKey, existsOf, nTransfers,
                   transferKey, nUploads>>

\* upload_files catching the error of one file and going on with the next.
TransferRaiseContinue ==
    /\ pc = "uploading"
    /\ failed
    /\ AllIdle
    /\ openHandles' = handles_after_with(openHandles, files[idx])
    /\ status' = [status EXCEPT ![idx] = "Failed"]
    /\ idx' = idx + 1
    /\ pc' = "loop"
    /\ DropTransferState
    /\ UNCHANGED <<inputs, error, root_path_is_directory, files, key, outcome,
                   file_exists, nChecks, checkedKey, existsOf, nTransfers,
                   transferKey, nUploads>>

\* upload_fileobj raises: the with block closes the file, and lines 152-153,
\* 388-389 and main's 101-102 re-raise, which ends the run.
TransferRaise ==
    /\ pc = "uploading"
    /\ failed
    /\ upload_settled
    /\ openHandles' = handles_after_with(openHandles, files[idx])
    /\ status' = [status EXCEPT ![idx] = "Failed"]
    /\ pc' = "raised"
    /\ error' = "TransferError"
    /\ DropTransferState
    /\ UNCHANGED <<inputs, root_path_is_directory, files, idx, key, outcome,
                   file_exists, nChecks, checkedKey, existsOf, nTransfers,
                   transferKey, nUploads>>

Next ==
    \/ BoilerplateWarning
    \/ InitAwsClient
    \/ CheckPathAndEnumerate
    \/ LoopNext
    \/ LoopEnd
    \/ CheckObjectExists
    \/ Decide
    \/ OpenFile
    \/ \E w \in Workers : TakeChunk(w)
    \/ \E w \in Workers : Acquire(w)
    \/ \E w \in Workers : Load(w)
    \/ \E w \in Workers : Store(w)
    \/ \E w \in Workers : Emit(w)
    \/ \E w \in Workers : Release(w)
    \/ TransportFail
    \/ TransferReturn
    \/ TransferRaise

Spec == Init /\ [][Next]_vars

TypeOK ==
    /\ pc \in {"start", "init_client", "check_path", "loop", "check", "decide",
               "open", "uploading", "done", "raised", "exited"}
    /\ idx \in 1..(Len(files) + 1)
    /\ lock \in {NoLock} \cup Workers
    /\ seen_so_far \in 0..size
    /\ unsent \in 0..size
    /\ \A i \in 1..Len(files) : existsOf[i] \in {"none", "True", "False", "raise"}

\* ------------------------------------------------------------ properties
Indices == 1..Len(files)

\* The skip-or-transfer decision of file i has been taken.
Decided(i) == i < idx \/ (i = idx /\ pc \notin {"loop", "check", "decide"})

DerivedKey(i) ==
    derive_key(files[i], root_path, key_prefix, root_path_is_directory)

\* C1: a file whose existence check returned true while replace_if_exists is
\* false is never handed to upload_file_to_s3, and ends Skipped.
C1_SkipNeverTransfers ==
    \A i \in Indices :
        (existsOf[i] = "True" /\ ~replace_if_exists) =>
            /\ nTransfers[i] = 0
            /\ transferKey[i] = <<>>
            /\ files[i] \notin openHandles
            /\ status[i] \in {"KeyDerived", "Skipped"}
            /\ (Decided(i) => status[i] = "Skipped")

C1_Witness ==
    \E i \in Indices :
        /\ existsOf[i] = "True"
        /\ ~replace_if_exists
        /\ status[i] = "Skipped"
        /\ pc = "done"

\* C2: a file whose existence check returned false, or true while
\* replace_if_exists is true, is handed to upload_file_to_s3 exactly once with
\* its derived key and is not skipped.
C2_TransferInvoked ==
    \A i \in Indices :
        ( /\ Decided(i)
          /\ \/ existsOf[i] = "False"
             \/ (existsOf[i] = "True" /\ replace_if_exists) ) =>
            /\ status[i] \in {"Transferring", "Succeeded", "Failed"}
            /\ nTransfers[i] = 1
            /\ transferKey[i] = DerivedKey(i)

C2_Witness ==
    \E i \in Indices :
        /\ existsOf[i] = "True"
        /\ replace_if_exists
        /\ status[i] = "Succeeded"
        /\ transferKey[i] = DerivedKey(i)

\* C3 as stated: once the run has ended, every file after a file whose
\* transfer raised has been processed (checked once, in a terminal state).
C3_Original ==
    (pc \in {"done", "raised"}) =>
        \A i \in Indices : \A j \in Indices :
            (status[i] = "Failed" /\ error = "TransferError" /\ j > i) =>
                (nChecks[j] = 1 /\ status[j] \in Terminal)

\* C3 amended: a transfer that raises ends the run; the error propagates out
\* of upload_files and main, and no later file is processed at all.
C3_FailureAbortsBatch ==
    \A i \in Indices :
        status[i] = "Failed" =>
            /\ pc = "raised"
            /\ error \in {"TransferError", "OpenError"}
            /\ idx = i
            /\ \A j \in Indices :
                j > i => /\ status[j] = "Discovered"
                         /\ nChecks[j] = 0
                         /\ nTransfers[j] = 0

C3_Witness ==
    \E i \in Indices :
        /\ status[i] = "Failed"
        /\ error = "TransferError"
        /\ i < Len(files)
        /\ status[i + 1] = "Discovered"

\* The last get_object outcome belongs to file i.
JustChecked(i) == i = idx /\ nChecks[i] = 1

\* C4 as stated: a missing key and every ClientError, whatever its code, make
\* check_object_exists return false, and the file is then transferred.
C4_Original ==
    \A i \in Indices :
        (JustChecked(i) /\ outcome \in ClientErrorCodes) =>
            /\ existsOf[i] = "False"
            /\ (Decided(i) => nTransfers[i] = 1)

\* C4 amended: a missing key and every ClientError whose code is not
\* InvalidObjectState make check_object_exists return false without raising,
\* and the file is then transferred; a ClientError with code
\* InvalidObjectState makes it return true (the object is considered present,
\* so the file is skipped unless replace_if_exists is set).
C4_ClientErrorHandling ==
    \A i \in Indices :
        JustChecked(i) =>
            /\ (outcome \in ClientErrorCodes \ {"InvalidObjectState"}) =>
                   /\ existsOf[i] = "False"
                   /\ (Decided(i) => nTransfers[i] = 1)
            /\ (outcome = "InvalidObjectState") =>
                   /\ existsOf[i] = "True"
                   /\ (Decided(i) /\ ~replace_if_exists => status[i] = "Skipped")

C4_Witness ==
    \E i \in Indices :
        /\ JustChecked(i)
        /\ outcome = "AccessDenied"
        /\ existsOf[i] = "False"
        /\ status[i] = "Transferring"

\* C5: under the lock no progress update is lost: the counter always equals
\* the sum of the deltas added so far, every emitted line shows that sum and
\* its percentage of the file size, and once the callbacks' deltas sum to the
\* file size and all have returned, the counter equals the size and the last
\* line shows 100.00.
C5_NoLostUpdate ==
    (pc = "uploading") =>
        /\ seen_so_far = applied
        /\ \A w \in Workers :
            wpc[w] = "emitted" =>
                emitted = [seen |-> applied, pct |-> percentage(applied, size)]
        /\ (AllIdle /\ called = size) =>
                /\ seen_so_far = size
                /\ emitted = [seen |-> size, pct |-> 100 * 100]

\* All bytes of a file of more than one byte have been reported and the last
\* line shows 100.00.
C5_Witness ==
    /\ pc = "uploading"
    /\ AllIdle
    /\ size > 1
    /\ called = size
    /\ seen_so_far = size
    /\ emitted = [seen |-> size, pct |-> 100 * 100]

\* A callback holds the lock and has written a partial line while another
\* worker's callback waits for the lock.
C5_Contention ==
    \E w \in Workers : \E v \in Workers :
        /\ w # v
        /\ wpc[w] = "emitted"
        /\ wpc[v] = "call"
        /\ lock = w
        /\ emitted.seen = applied
        /\ applied < size

\* C6 as stated: with a key prefix and a directory root the key is the file
\* path with only its leading root_path replaced by key_prefix, it has no
\* doubled separator, and prefix "media/", root "/data/videos", file
\* "/data/videos/x.mp4" give the key "media/x.mp4".
HasDoubledSeparator(s) ==
    \E i \in 1..(Len(s) - 1) : s[i] = "/" /\ s[i + 1] = "/"

LeadingReplaced(file, root, prefix) ==
    prefix \o SubSeq(file, Len(root) + 1, Len(file))

C6_KeyPreservesSubPath ==
    (pc = "check" /\ key_prefix # <<>> /\ root_path_is_directory) =>
        /\ key = LeadingReplaced(files[idx], root_path, key_prefix)
        /\ ~HasDoubledSeparator(key)
        /\ ( /\ root_path = Path_videos
             /\ files[idx] = os_path_join(Path_videos, Name_xmp4) ) =>
                key = key_prefix \o Name_xmp4

\* C7 as stated: with a non-empty extensions tuple, every path of the files
\* list main hands to upload_files ends with one of the suffixes and is no
\* directory, and no other path is uploaded.
C7_FilesSatisfyFilter ==
    (pc \notin {"start", "init_client", "check_path"} /\ extensions # <<>>) =>
        \A i \in Indices :
            /\ str_endswith(files[i], extensions)
            /\ ~os_path_isdir(files[i])

\* C8: a root path that exists neither as a file nor as a directory ends the
\* run with FileNotFoundError before upload_files is entered: no file is
\* listed, no existence check is made and no transfer is started.
C8_BadRootIsFatal ==
    (~os_path_exists(root_path)) =>
        /\ pc \in {"start", "exited", "init_client", "check_path", "raised"}
        /\ (pc = "raised" => error \in {"ClientError", "FileNotFoundError"})
        /\ files = <<>>
        /\ nChecks = <<>>
        /\ nTransfers = <<>>
        /\ outcome = "none"
        /\ openHandles = {}
        /\ AllIdle

C8_Witness ==
    /\ ~os_path_exists(root_path)
    /\ pc = "raised"
    /\ error = "FileNotFoundError"

\* C9: files are processed one at a time in list order: a file is touched only
\* when every earlier file is in a terminal state, at most one file is
\* Transferring, and part-upload workers and the open file handle belong to
\* the one file being transferred.
C9_Sequential ==
    /\ \A i \in Indices : \A j \in Indices :
        (i < j /\ (status[j] # "Discovered" \/ nChecks[j] > 0)) =>
            status[i] \in Terminal
    /\ Cardinality({i \in Indices : status[i] = "Transferring"}) <= 1
    /\ (\E w \in Workers : wpc[w] # "idle") =>
            /\ pc = "uploading"
            /\ idx \in Indices
            /\ status[idx] = "Transferring"
    /\ (pc \in {"loop", "check", "decide"}) => (AllIdle /\ lock = NoLock)
    /\ \A i \in Indices : status[i] \in Terminal => i < idx \/ pc = "raised"

C9_Witness ==
    \E i \in Indices :
        /\ i > 1
        /\ status[i - 1] = "Succeeded"
        /\ status[i] = "Transferring"
        /\ \E w \in Workers : wpc[w] = "stored"

\* C10: check_object_exists is called exactly once per processed file, with
\* the key derived for it, and has returned before the file is skipped or
\* transferred; the transfer uses the key that was checked.
C10_CheckedOnceBeforeDecision ==
    \A i \in Indices :
        /\ nChecks[i] <= 1
        /\ (status[i] = "Discovered") => (nChecks[i] = 0 /\ nTransfers[i] = 0)
        /\ (nChecks[i] = 1) => checkedKey[i] = DerivedKey(i)
        /\ (status[i] \in {"Transferring", "Skipped", "Succeeded", "Failed"}) =>
                (nChecks[i] = 1 /\ existsOf[i] \in {"True", "False"})
        /\ (nTransfers[i] > 0) =>
                (nChecks[i] = 1 /\ transferKey[i] = checkedKey[i])

C10_Witness ==
    \E i \in Indices :
        /\ key_prefix # <<>>
        /\ nChecks[i] = 1
        /\ nTransfers[i] = 1
        /\ checkedKey[i] # files[i]
        /\ transferKey[i] = checkedKey[i]
        /\ status[i] = "Succeeded"

\* C11: the local file is open only while its one transfer runs and is closed
\* on every exit path of upload_file_to_s3 (return or raise); each call makes
\* at most one upload attempt, and no handle is open when another file is
\* processed or when the run has ended.
C11_HandleScoped ==
    /\ (pc = "uploading") =>
            /\ openHandles = {files[idx]}
            /\ status[idx] = "Transferring"
            /\ nUploads[idx] = 1
    /\ (pc # "uploading") => openHandles = {}
    /\ \A i \in Indices :
        /\ nUploads[i] <= 1
        /\ nUploads[i] <= nTransfers[i]
        /\ (status[i] \in Terminal) => files[i] \notin openHandles
        /\ (status[i] = "Succeeded") => nUploads[i] = 1
        /\ (status[i] = "Failed" /\ error = "TransferError") => nUploads[i] = 1

\* The upload of a file raised after its handle had been opened, and the
\* handle is closed.
C11_Witness ==
    \E i \in Indices :
        /\ status[i] = "Failed"
        /\ error = "TransferError"
        /\ pc = "raised"
        /\ nUploads[i] = 1
        /\ files[i] \notin openHandles

====
